---------------------------- MODULE Spec2Model ----------------------------
(***************************************************************************)
(* Model of the notebook kilauea_altair_final.ipynb: the earthquake        *)
(* catalog is partitioned into explosion sets (cells 3-4), aggregated into *)
(* the frequency-magnitude table (cell 5), fed to the b-value estimator    *)
(* (cells 6-9) and shown in linked views (cells 10-11).                    *)
(*                                                                         *)
(* Units.  A timestamp is an integer tick.  A magnitude is an integer      *)
(* number of hundredths (185 is M1.85); a magnitude bin is an integer      *)
(* number of tenths (18 is the bin 1.8).  A b-value is an integer number   *)
(* of thousandths, or the string "NaN".  A normalised count is the exact   *)
(* fraction [num, den].                                                    *)
(***************************************************************************)
EXTENDS Integers, Sequences, FiniteSets, TLC

VARIABLES
    pc,           \* the next cell (or loop position) to execute
    explode,      \* explode.DTtime, ascending
    events,       \* the catalog rows [t, mag], ascending by t
    start_times,  \* cell 3
    end_times,    \* cell 3
    ex_set,       \* the column events['ex_set'], row by row
    i,            \* the set counter of cell 4
    zi,           \* how many (start, end) pairs of the zip are consumed
    events_sum,   \* cell 5: rows [ex_set, mag, counts, cs_counts]
    events_cumsum, \* cell 5: rows [ex_set, mag, v]
    events_stats, \* cell 6: rows [mag, ex_set]
    bvals_df,     \* cell 8: [index, val, label], val[r][c] for mag_min[c]
    berrs_df,     \* cell 8
    si,           \* cell 8: rows of the outer loop done
    mi,           \* cell 8: columns of the inner loop done
    statsobj,     \* cell 8: the SetStats object of the last iteration
    bvals_long,   \* cell 9: rows [ex_set, mag_c, bvals, berrs]
    mychart,      \* cell 11: the views, each [data, x, filter, cond, owns]
    click_multi,  \* the values picked in the histogram
    selection     \* the values picked in the legend

partVars == <<explode, events, start_times, end_times, ex_set, i, zi>>

fmdVars == <<events_sum, events_cumsum>>

statVars == <<events_stats, bvals_df, berrs_df, si, mi, statsobj, bvals_long>>

viewVars == <<mychart, click_multi, selection>>

-----------------------------------------------------------------------------
(* Bounds of the small catalogs *)

MaxT == 4
MaxEvents == 3
MaxBounds == 3

(* Bounds of the small catalogs that also differ in magnitude *)

TblMaxT == 2
TblMaxEvents == 3
TblMaxBounds == 2

(* explode.DTtime[12:-1], explode.DTtime[13:] *)
StartIdx == 12

-----------------------------------------------------------------------------
(* Sequence helpers *)

Range(s) == {s[j] : j \in DOMAIN s}

RECURSIVE SumSeq(_)
SumSeq(s) == IF s = <<>> THEN 0 ELSE s[1] + SumSeq(Tail(s))

Reverse(s) == [j \in 1..Len(s) |-> s[Len(s) + 1 - j]]

Ascending(s) == \A j \in 1..(Len(s) - 1) : s[j] <= s[j + 1]

(* s[a:b] of Python, 0-based, b exclusive, on a sequence *)
Slice(s, a, b) == SubSeq(s, a + 1, b)

-----------------------------------------------------------------------------
(* Cell 3: the boundaries *)

StartTimes(ex) == Slice(ex, StartIdx, Len(ex) - 1)

EndTimes(ex) == Slice(ex, StartIdx + 1, Len(ex))

Cell3 ==
    /\ pc = "cell3"
    /\ start_times' = StartTimes(explode)
    /\ end_times' = EndTimes(explode)
    /\ pc' = "cell4"
    /\ UNCHANGED <<explode, events, ex_set, i, zi, fmdVars, statVars, viewVars>>

-----------------------------------------------------------------------------
(* Cell 4: the set-assignment loop *)

(* the interval test with its start left open *)
MaskOpenStart(t, start, end) == t > start /\ t < end

(* the interval test with its end closed *)
MaskClosedEnd(t, start, end) == t >= start /\ t <= end

Mask(t, start, end) == t >= start /\ t < end

MaskLast(t, end) == t > end

(* events.loc[mask, 'ex_set'] = v *)
LocAssign(col, mask, v) == [j \in DOMAIN col |-> IF mask[j] THEN v ELSE col[j]]

Cell4Init ==
    /\ pc = "cell4"
    /\ ex_set' = [j \in 1..Len(events) |-> 0]
    /\ i' = 1
    /\ zi' = 0
    /\ pc' = "loop"
    /\ UNCHANGED <<explode, events, start_times, end_times, fmdVars, statVars, viewVars>>

(* zip stops at the shorter of the two lists *)
ZipLen == IF Len(start_times) < Len(end_times) THEN Len(start_times)
          ELSE Len(end_times)

Cell4Loop ==
    /\ pc = "loop"
    /\ zi < ZipLen
    /\ LET start == start_times[zi + 1]
           end == end_times[zi + 1]
           mask == [j \in 1..Len(events) |-> Mask(events[j].t, start, end)]
       IN  ex_set' = LocAssign(ex_set, mask, i)
    /\ i' = i + 1
    /\ zi' = zi + 1
    /\ UNCHANGED <<pc, explode, events, start_times, end_times, fmdVars, statVars, viewVars>>

(* end_times[-1] raises IndexError on an empty list *)
Cell4Last ==
    /\ pc = "loop"
    /\ zi = ZipLen
    /\ IF end_times = <<>>
       THEN /\ pc' = "IndexError"
            /\ UNCHANGED ex_set
       ELSE /\ LET end == end_times[Len(end_times)]
                   mask == [j \in 1..Len(events) |-> MaskLast(events[j].t, end)]
               IN  ex_set' = LocAssign(ex_set, mask, i)
            /\ pc' = "cell5"
    /\ UNCHANGED <<explode, events, start_times, end_times, i, zi, fmdVars, statVars, viewVars>>

-----------------------------------------------------------------------------
(* Data frames: [index, columns, val], val[r][c] the cell of row r, column c *)

Min(S) == CHOOSE x \in S : \A y \in S : x <= y

Max(S) == CHOOSE x \in S : \A y \in S : x >= y

RECURSIVE SortedSeqOfSet(_)
SortedSeqOfSet(S) ==
    IF S = {} THEN <<>> ELSE <<Min(S)>> \o SortedSeqOfSet(S \ {Min(S)})

Pos(s, x) == CHOOSE j \in DOMAIN s : s[j] = x

(* x / y as the exact fraction; den = 0 is the NaN of numpy's 0/0 *)
Frac(x, y) == [num |-> IF y = 0 THEN 0 ELSE x, den |-> y]

(* Series.round(decimals=1): hundredths to tenths, halves to the even tenth *)
Round1(m) ==
    LET q == m \div 10
        r == m % 10
    IN  IF r < 5 THEN q
        ELSE IF r > 5 THEN q + 1
        ELSE IF q % 2 = 0 THEN q ELSE q + 1

(* events_mags after the rounding of line 178 *)
EventsMags(ev, col) ==
    [j \in 1..Len(ev) |-> [mag |-> Round1(ev[j].mag), ex_set |-> col[j]]]

(* pivot_table(index='mag', columns='ex_set', values='depth',             *)
(* aggfunc='count', fill_value=0): every catalog row carries a depth, so   *)
(* the count of depths is the count of rows                                *)
PivotCount(rows) ==
    LET index == SortedSeqOfSet({rows[j].mag : j \in DOMAIN rows})
        columns == SortedSeqOfSet({rows[j].ex_set : j \in DOMAIN rows})
    IN  [index |-> index,
         columns |-> columns,
         val |-> [r \in 1..Len(index) |-> [c \in 1..Len(columns) |->
                    Cardinality({j \in DOMAIN rows :
                        rows[j].mag = index[r] /\ rows[j].ex_set = columns[c]})]]]

(* the largest count of the whole table instead of each column's *)
MaxOfTable(df) ==
    [c \in 1..Len(df.columns) |->
        Max({df.val[r][q] : r \in 1..Len(df.index), q \in 1..Len(df.columns)})]

(* df.max(axis=0) *)
MaxAxis0(df) ==
    [c \in 1..Len(df.columns) |-> Max({df.val[r][c] : r \in 1..Len(df.index)})]

(* df.div(series, axis=1) *)
DivAxis1(df, ser) ==
    [df EXCEPT !.val = [r \in 1..Len(df.index) |-> [c \in 1..Len(df.columns) |->
                           Frac(df.val[r][c], ser[c])]]]

(* df[::-1] *)
ReverseRows(df) ==
    [df EXCEPT !.index = Reverse(df.index), !.val = Reverse(df.val)]

(* df.cumsum() *)
CumSum(df) ==
    [df EXCEPT !.val = [r \in 1..Len(df.index) |-> [c \in 1..Len(df.columns) |->
                           SumSeq([q \in 1..r |-> df.val[q][c]])]]]

(* df.sort_values('mag'): rows ascending by the index level mag *)
SortByMag(df) ==
    LET index == SortedSeqOfSet(Range(df.index))
    IN  [df EXCEPT !.index = index,
                   !.val = [r \in 1..Len(index) |-> df.val[Pos(df.index, index[r])]]]

(* df.unstack().to_frame(name).reset_index(): column by column *)
Unstack(df) ==
    LET R == Len(df.index)
    IN  [p \in 1..(R * Len(df.columns)) |->
            LET c == ((p - 1) \div R) + 1
                r == ((p - 1) % R) + 1
            IN  [ex_set |-> df.columns[c], mag |-> df.index[r], v |-> df.val[r][c]]]

QuakeSum(ev, col) == PivotCount(EventsMags(ev, col))

QuakeSumDiv(qs) == DivAxis1(qs, MaxAxis0(qs))

(* the cumulative sum taken from the smallest magnitude up *)
QuakeCumsumForward(qs) == SortByMag(CumSum(qs))

(* the reverse cumulative sum left in descending order of magnitude *)
QuakeCumsumUnsorted(qs) == CumSum(ReverseRows(qs))

QuakeCumsum(qs) == SortByMag(CumSum(ReverseRows(qs)))

QuakeCumsumNorm(qc) == DivAxis1(qc, MaxAxis0(qc))

(* events_sum['cs_counts'] = events_cumsum['cs_counts'].values *)
AddCsCounts(es, ec) ==
    [p \in 1..Len(es) |->
        [ex_set |-> es[p].ex_set, mag |-> es[p].mag,
         counts |-> es[p].v, cs_counts |-> ec[p].v]]

Cell5 ==
    /\ pc = "cell5"
    /\ LET quake_sum == QuakeSum(events, ex_set)
           es == Unstack(QuakeSumDiv(quake_sum))
           ec == Unstack(QuakeCumsumNorm(QuakeCumsum(quake_sum)))
       IN  /\ events_cumsum' = ec
           /\ events_sum' = AddCsCounts(es, ec)
    /\ pc' = "cell6"
    /\ UNCHANGED <<partVars, statVars, viewVars>>

-----------------------------------------------------------------------------
(* Cells 6-7: the statistics of one set *)

(* a float that may be NaN or inf; v counts thousandths *)
NaN == [k |-> "nan", v |-> 0]

Inf == [k |-> "inf", v |-> 0]

Num(x) == [k |-> "num", v |-> x]

(* events[['mag','ex_set']][ex_set != 0] *)
EventsStats(ev, col) ==
    SelectSeq([j \in 1..Len(ev) |-> [mag |-> ev[j].mag, ex_set |-> col[j]]],
              LAMBDA row : row.ex_set # 0)

Cell6 ==
    /\ pc = "cell6"
    /\ events_stats' = EventsStats(events, ex_set)
    /\ pc' = "cell8"
    /\ UNCHANGED <<partVars, fmdVars, viewVars, bvals_df, berrs_df, si, mi, statsobj, bvals_long>>

(* math.log10(math.e), in thousandths *)
Log10e == 434

(* 0.5*0.1, in hundredths of a magnitude *)
HalfBin == 5

(* np.mean: the exact fraction sum/len; 0/0 (NaN) on an empty list *)
Mean(mags) == Frac(SumSeq(mags), Len(mags))

SetStats(mags, magC) ==
    [mags |-> mags, mc |-> magC, Ntot |-> Len(mags), magmu |-> Mean(mags)]

(* the estimate without the half-bin correction *)
getBNoHalfBin(self) ==
    IF self.magmu.den = 0 THEN NaN
    ELSE LET d == self.magmu.num - self.mc * self.magmu.den
         IN  IF d = 0 THEN Inf
             ELSE Num((Log10e * 100 * self.magmu.den) \div d)

(* log10(e) / (magmu - (mc - 0.05)), in thousandths, rounded down *)
getB(self) ==
    IF self.magmu.den = 0 THEN NaN
    ELSE LET d == self.magmu.num - (self.mc - HalfBin) * self.magmu.den
         IN  IF d = 0 THEN Inf
             ELSE Num((Log10e * 100 * self.magmu.den) \div d)

RECURSIVE SqrtSearch(_, _, _)
SqrtSearch(x, lo, hi) ==
    IF lo = hi THEN lo
    ELSE LET mid == (lo + hi + 1) \div 2
         IN  IF mid * mid <= x THEN SqrtSearch(x, mid, hi)
             ELSE SqrtSearch(x, lo, mid - 1)

(* math.sqrt(n), in thousandths, rounded down *)
Sqrt(n) == SqrtSearch(n * 1000000, 0, n * 1000)

(* self.getB() / math.sqrt(self.Ntot) *)
getB_err(self) ==
    LET b == getB(self)
    IN  IF b.k # "num" THEN b
        ELSE IF self.Ntot = 0 THEN Inf
        ELSE Num((b.v * 1000) \div Sqrt(self.Ntot))

-----------------------------------------------------------------------------
(* Cell 8: the estimation loop *)

mag_min == <<180, 190, 200, 210, 220, 230, 240>>

(* range(1,51) *)
RangeEnd == 51

(* Series.unique(): the values in the order of their first appearance *)
Unique(s) ==
    LET tagged == [j \in 1..Len(s) |-> [j |-> j, x |-> s[j]]]
        first == SelectSeq(tagged, LAMBDA p : \A q \in 1..(p.j - 1) : s[q] # p.x)
    IN  [j \in 1..Len(first) |-> first[j].x]

(* pd.DataFrame(index=..., columns=mag_min): every cell NaN *)
EmptyFrame(index) ==
    [index |-> index,
     val |-> [r \in 1..Len(index) |-> [c \in 1..Len(mag_min) |-> NaN]],
     label |-> <<>>]

Cell8Init ==
    /\ pc = "cell8"
    /\ LET index == Unique([j \in 1..Len(events_stats) |-> events_stats[j].ex_set])
       IN  /\ bvals_df' = EmptyFrame(index)
           /\ berrs_df' = EmptyFrame(index)
    /\ si' = 0
    /\ mi' = 0
    /\ pc' = "bloop"
    /\ UNCHANGED <<partVars, fmdVars, viewVars, events_stats, statsobj, bvals_long>>

(* the magnitude filter without the set filter *)
EventsListAnySet(es, setnum, magc) ==
    LET sel == SelectSeq(es, LAMBDA row : row.mag >= magc)
    IN  [j \in 1..Len(sel) |-> sel[j].mag]

(* events_stats.loc[(mag >= magc) & (ex_set == setnum)].mag.values *)
EventsList(es, setnum, magc) ==
    LET sel == SelectSeq(es, LAMBDA row : row.mag >= magc /\ row.ex_set = setnum)
    IN  [j \in 1..Len(sel) |-> sel[j].mag]

Cell8Iter ==
    /\ pc = "bloop"
    /\ si < Len(bvals_df.index)
    /\ LET setnum == bvals_df.index[si + 1]
           magc == mag_min[mi + 1]
           obj == SetStats(EventsList(events_stats, setnum, magc), magc)
       IN  /\ statsobj' = obj
           /\ bvals_df' = [bvals_df EXCEPT !.val[si + 1][mi + 1] = getB(obj)]
           /\ berrs_df' = [berrs_df EXCEPT !.val[si + 1][mi + 1] = getB_err(obj)]
    /\ IF mi + 1 = Len(mag_min)
       THEN si' = si + 1 /\ mi' = 0
       ELSE si' = si /\ mi' = mi + 1
    /\ UNCHANGED <<pc, partVars, fmdVars, viewVars, events_stats, bvals_long>>

(* df['ex_set'] = range(1,51): ValueError unless the frame has 50 rows *)
Cell8Label ==
    /\ pc = "bloop"
    /\ si = Len(bvals_df.index)
    /\ IF Len(bvals_df.index) = RangeEnd - 1
       THEN /\ bvals_df' = [bvals_df EXCEPT !.label = [r \in 1..(RangeEnd - 1) |-> r]]
            /\ berrs_df' = [berrs_df EXCEPT !.label = [r \in 1..(RangeEnd - 1) |-> r]]
            /\ pc' = "cell9"
       ELSE /\ pc' = "ValueError"
            /\ UNCHANGED <<bvals_df, berrs_df>>
    /\ UNCHANGED <<partVars, fmdVars, viewVars, events_stats, si, mi, statsobj, bvals_long>>

-----------------------------------------------------------------------------
(* Cell 9: the long form of the two tables *)

(* round(2): thousandths to hundredths, halves to the even hundredth *)
Round2(x) == IF x.k = "num" THEN Num(Round1(x.v)) ELSE x

(* pd.melt(df, id_vars=['ex_set']): column by column *)
Melt(df) ==
    LET R == Len(df.index)
    IN  [p \in 1..(R * Len(mag_min)) |->
            LET c == ((p - 1) \div R) + 1
                r == ((p - 1) % R) + 1
            IN  [ex_set |-> df.label[r], mag_c |-> mag_min[c], v |-> df.val[r][c]]]

BvalsLong(bdf, edf) ==
    LET bl == Melt(bdf)
        el == Melt(edf)
    IN  [p \in 1..Len(bl) |->
            [ex_set |-> bl[p].ex_set, mag_c |-> bl[p].mag_c,
             bvals |-> Round2(bl[p].v), berrs |-> Round2(el[p].v)]]

Cell9 ==
    /\ pc = "cell9"
    /\ bvals_long' = BvalsLong(bvals_df, berrs_df)
    /\ pc' = "cell10"
    /\ UNCHANGED <<partVars, fmdVars, viewVars, events_stats, bvals_df, berrs_df,
                   si, mi, statsobj>>

-----------------------------------------------------------------------------
(* Cell 10: the rows to plot *)

(* the tick of '2018-05-29 11:56:11.570000' *)
PatternStart == 1

Kept(col) == {j \in DOMAIN col : col[j] # 0}

(* s[keep], the rows in their order *)
Filter(s, keep) ==
    LET tagged == [j \in 1..Len(s) |-> [j |-> j, x |-> s[j]]]
        kept == SelectSeq(tagged, LAMBDA p : p.j \in keep)
    IN  [j \in 1..Len(kept) |-> kept[j].x]

Cell10 ==
    /\ pc = "cell10"
    /\ events' = Filter(events, Kept(ex_set))
    /\ ex_set' = Filter(ex_set, Kept(ex_set))
    /\ events_sum' =
          LET es == Filter(events_sum, {p \in DOMAIN events_sum : events_sum[p].ex_set # 0})
          IN  [p \in 1..Len(es) |->
                  [ex_set |-> es[p].ex_set, mag |-> es[p].mag, counts |-> es[p].counts,
                   cs_counts |-> es[p].cs_counts, mag_c |-> es[p].mag]]
    /\ explode' = Filter(explode, {j \in DOMAIN explode : explode[j] >= PatternStart})
    /\ pc' = "cell11"
    /\ UNCHANGED <<start_times, end_times, i, zi, events_cumsum, statVars, viewVars>>

-----------------------------------------------------------------------------
(* Cell 11: the linked views *)

View(data, filter, cond, owns) ==
    [data |-> data, filter |-> filter, cond |-> cond, owns |-> owns]

(* quakes, explode, latlon, bars, fmd, scatter, legend as declared *)
Views ==
    [quakes  |-> View("events",     "click_multi", "none",        "none"),
     explode |-> View("explode",    "click_multi", "none",        "none"),
     latlon  |-> View("events",     "click_multi", "click_multi", "none"),
     bars    |-> View("events",     "none",        "click_multi", "click_multi"),
     fmd     |-> View("events_sum", "click_multi", "click_multi", "none"),
     scatter |-> View("bvals_long", "none",        "selection",   "none"),
     legend  |-> View("bvals_long", "none",        "selection",   "selection")]

Cell11 ==
    /\ pc = "cell11"
    /\ mychart' = Views
    /\ click_multi' = {}
    /\ selection' = {}
    /\ pc' = "view"
    /\ UNCHANGED <<partVars, fmdVars, statVars>>

(* the field a selection projects: encodings=['x'] of bars, fields=['mag_c'] *)
SelField(sel) == IF sel = "click_multi" THEN "ex_set" ELSE "mag_c"

SelValue(sel) == IF sel = "click_multi" THEN click_multi ELSE selection

(* the rows behind a view *)
Data(name) ==
    CASE name = "events" ->
           {[t |-> events[j].t, mag |-> events[j].mag, ex_set |-> ex_set[j]] :
                j \in DOMAIN events}
      [] name = "explode" -> {[t |-> explode[j]] : j \in DOMAIN explode}
      [] name = "events_sum" -> Range(events_sum)
      [] name = "bvals_long" -> Range(bvals_long)

(* a selection's test of a row: an empty selection passes every row *)
Test(sel, row) ==
    \/ sel = "none"
    \/ SelValue(sel) = {}
    \/ /\ SelField(sel) \in DOMAIN row
       /\ row[SelField(sel)] \in SelValue(sel)

(* the rows a view draws, and those it draws in colour *)
Shown(v) == {row \in Data(mychart[v].data) : Test(mychart[v].filter, row)}

Coloured(v) == {row \in Shown(v) : Test(mychart[v].cond, row)}

(* how many values the two selections may hold together *)
MaxPicks == 2

Picks == Cardinality(click_multi) + Cardinality(selection)

Toggle(S, x) == IF x \in S THEN S \ {x} ELSE S \cup {x}

BarValues == Range(ex_set)

(* a click on a bar picks it alone *)
ClickBar ==
    /\ pc = "view"
    /\ \E x \in BarValues :
          /\ Cardinality(selection) + 1 <= MaxPicks
          /\ click_multi' = {x}
    /\ UNCHANGED <<pc, partVars, fmdVars, statVars, mychart, selection>>

(* a shift-click on a bar adds it or takes it out *)
ShiftClickBar ==
    /\ pc = "view"
    /\ \E x \in BarValues :
          /\ x \in click_multi \/ Picks < MaxPicks
          /\ click_multi' = Toggle(click_multi, x)
    /\ UNCHANGED <<pc, partVars, fmdVars, statVars, mychart, selection>>

ClickLegend ==
    /\ pc = "view"
    /\ \E m \in Range(mag_min) :
          /\ Cardinality(click_multi) + 1 <= MaxPicks
          /\ selection' = {m}
    /\ UNCHANGED <<pc, partVars, fmdVars, statVars, mychart, click_multi>>

ShiftClickLegend ==
    /\ pc = "view"
    /\ \E m \in Range(mag_min) :
          /\ m \in selection \/ Picks < MaxPicks
          /\ selection' = Toggle(selection, m)
    /\ UNCHANGED <<pc, partVars, fmdVars, statVars, mychart, click_multi>>

-----------------------------------------------------------------------------
(* The catalogs *)

Mags == {185, 205, 240}

SeqsUpTo(S, lo, hi) == UNION {[1..n -> S] : n \in lo..hi}

(* 1..maxEv rows with ticks 0..maxT, sorted by time as line 97 leaves them *)
Catalogs(magSet, maxT, maxEv) ==
    {s \in SeqsUpTo([t : 0..maxT, mag : magSet], 1, maxEv) :
        \A j \in 1..(Len(s) - 1) : s[j].t <= s[j + 1].t}

(* the explosions before the regular pattern, then 1..maxB boundaries *)
Early == [j \in 1..StartIdx |-> 0]

Explosions(maxT, maxB) ==
    {Early \o b : b \in {s \in SeqsUpTo(0..maxT, 1, maxB) : Ascending(s)}}

SmallCatalogs(magSet, maxT, maxEv, maxB) ==
    {[events |-> e, explode |-> x] :
        e \in Catalogs(magSet, maxT, maxEv), x \in Explosions(maxT, maxB)}

(* A season: n boundaries one tick apart from PatternStart on, an event    *)
(* before the pattern, one event in every set but the set drop (0: none).  *)
SeasonBounds(n) == [k \in 1..n |-> PatternStart + k - 1]

SeasonMag(t) == SortedSeqOfSet(Mags)[(t % Cardinality(Mags)) + 1]

SeasonTicks(n, drop) ==
    {0} \cup {PatternStart + k - 1 : k \in (1..(n - 1)) \ {drop}}
        \cup (IF drop = n THEN {} ELSE {PatternStart + n})

SeasonEvents(n, drop) ==
    LET ticks == SortedSeqOfSet(SeasonTicks(n, drop))
    IN  [j \in 1..Len(ticks) |-> [t |-> ticks[j], mag |-> SeasonMag(ticks[j])]]

Seasons ==
    {[events |-> SeasonEvents(n, drop), explode |-> Early \o SeasonBounds(n)] :
        n \in {RangeEnd - 1, RangeEnd}, drop \in {0, 1, RangeEnd - 1}}

Loaded(cats) ==
    /\ pc = "cell3"
    /\ \E c \in cats : events = c.events /\ explode = c.explode
    /\ start_times = <<>>
    /\ end_times = <<>>
    /\ ex_set = <<>>
    /\ i = 0
    /\ zi = 0
    /\ events_sum = <<>>
    /\ events_cumsum = <<>>
    /\ events_stats = <<>>
    /\ bvals_df = EmptyFrame(<<>>)
    /\ berrs_df = EmptyFrame(<<>>)
    /\ si = 0
    /\ mi = 0
    /\ statsobj = SetStats(<<>>, 0)
    /\ bvals_long = <<>>
    /\ mychart = <<>>
    /\ click_multi = {}
    /\ selection = {}

-----------------------------------------------------------------------------
vars == <<pc, partVars, fmdVars, statVars, viewVars>>

(* The whole notebook on the seasons *)
Init == Loaded(Seasons)

NextPartition == Cell3 \/ Cell4Init \/ Cell4Loop \/ Cell4Last

NextFmd == NextPartition \/ Cell5

NextStats == NextFmd \/ Cell6 \/ Cell8Init \/ Cell8Iter \/ Cell8Label

Next ==
    \/ NextStats
    \/ Cell9 \/ Cell10 \/ Cell11
    \/ ClickBar \/ ShiftClickBar \/ ClickLegend \/ ShiftClickLegend

Spec == Init /\ [][Next]_vars

(* Cells 3-4 on small catalogs that differ in their timestamps *)
InitPartition == Loaded(SmallCatalogs({185}, MaxT, MaxEvents, MaxBounds))

SpecPartition == InitPartition /\ [][NextPartition]_vars

(* Cells 3-5 on small catalogs that differ in timestamps and magnitudes *)
InitTables == Loaded(SmallCatalogs(Mags, TblMaxT, TblMaxEvents, TblMaxBounds))

SpecFmd == InitTables /\ [][NextFmd]_vars

(* Cells 3-8 on the same catalogs *)
SpecStats == InitTables /\ [][NextStats]_vars

-----------------------------------------------------------------------------
(* Properties of the set partition (cells 3-4) *)

(* the boundaries b_1..b_n: the explosions from the starting one on *)
Bnd == SubSeq(explode, StartIdx + 1, Len(explode))

(* how many of the loop's interval tests, the final one included, t passes *)
TestsPassed(t) ==
    Cardinality({k \in 1..ZipLen : Mask(t, start_times[k], end_times[k])})
        + (IF MaskLast(t, end_times[Len(end_times)]) THEN 1 ELSE 0)

(* C1: with n >= 2 ascending boundaries, after the loop every earthquake   *)
(* has the set_id its timestamp fixes: 0 before b_1, k in [b_k, b_k+1), n  *)
(* after b_n; equal timestamps get equal set_ids; and no timestamp passes  *)
(* two of the interval tests.                                              *)
C1_SetIdByTimestamp ==
    (pc = "cell5" /\ Len(Bnd) >= 2) =>
        \A j \in DOMAIN events :
            LET t == events[j].t
                n == Len(Bnd)
            IN  /\ t < Bnd[1] => ex_set[j] = 0
                /\ \A k \in 1..(n - 1) :
                       (Bnd[k] <= t /\ t < Bnd[k + 1]) => ex_set[j] = k
                /\ t > Bnd[n] => ex_set[j] = n
                /\ \A j2 \in DOMAIN events :
                       events[j2].t = t => ex_set[j2] = ex_set[j]
                /\ TestsPassed(t) <= 1

(* earthquakes at T0 < b_1 < T1 < b_2 < T2 hold three consecutive set_ids *)
C1_Witness ==
    /\ pc = "cell5"
    /\ Len(Bnd) >= 2
    /\ \E j0, j1, j2 \in DOMAIN events :
          /\ events[j0].t < Bnd[1]
          /\ Bnd[1] < events[j1].t
          /\ events[j1].t < Bnd[2]
          /\ Bnd[2] < events[j2].t
          /\ ex_set[j1] = ex_set[j0] + 1
          /\ ex_set[j2] = ex_set[j1] + 1

(* C2: after the loop every earthquake at or after the last boundary       *)
(* (t >= b_n, t = b_n included) has the final set_id n, one more than the   *)
(* largest set_id n - 1 of an inter-explosion interval (stated for         *)
(* boundaries that are all distinct).                                      *)
C2_AtOrAfterLastIsFinal ==
    (pc = "cell5" /\ Len(Bnd) >= 2 /\ \A k \in 1..(Len(Bnd) - 1) : Bnd[k] < Bnd[k + 1]) =>
        \A j \in DOMAIN events :
            events[j].t >= Bnd[Len(Bnd)] => ex_set[j] = Len(Bnd)

(* C10: a step of the loop never changes a set_id that is already         *)
(* non-zero.                                                               *)
C10_WrittenOnce ==
    [][\A j \in DOMAIN ex_set : ex_set[j] # 0 => ex_set'[j] = ex_set[j]]_vars

(* an earthquake of set 1 has come through a later iteration and the       *)
(* final step                                                              *)
C10_Witness ==
    /\ pc = "cell5"
    /\ zi >= 2
    /\ \E j \in DOMAIN events : ex_set[j] = 1
    /\ \E j \in DOMAIN events : ex_set[j] = zi + 1

-----------------------------------------------------------------------------
(* Properties of the frequency-magnitude table (cell 5) *)

SetsInTable == {events_sum[p].ex_set : p \in DOMAIN events_sum}

BinsInTable == {events_sum[p].mag : p \in DOMAIN events_sum}

(* the events of set s in the bin m; in the bins from m up; in all *)
InBin(s, m) ==
    Cardinality({j \in DOMAIN events : ex_set[j] = s /\ Round1(events[j].mag) = m})

FromBin(s, m) ==
    Cardinality({j \in DOMAIN events : ex_set[j] = s /\ Round1(events[j].mag) >= m})

InSet(s) == Cardinality({j \in DOMAIN events : ex_set[j] = s})

C4_WitnessTwoSets ==
    /\ pc = "cell6"
    /\ \E p, q \in DOMAIN events_sum :
          /\ events_sum[p].counts.den # events_sum[q].counts.den
          /\ events_sum[p].counts.num = 0

-----------------------------------------------------------------------------
(* Properties of the b-value estimation (cells 6-8) *)

(* an iteration of the estimation loop has completed; its row and column *)
IterDone == pc \in {"bloop", "ValueError", "cell9"} /\ (si > 0 \/ mi > 0)

LastRow == IF mi > 0 THEN si + 1 ELSE si

LastCol == IF mi > 0 THEN mi ELSE Len(mag_min)

(* the catalog rows of set s with a magnitude of at least mc *)
Qualifying(s, mc) ==
    {j \in DOMAIN events : ex_set[j] = s /\ events[j].mag >= mc}

(* how often the magnitude m occurs in the list *)
Occurrences(mags, m) == Cardinality({j \in DOMAIN mags : mags[j] = m})

(* C3: the loop completes no iteration for a (set, Mc) pair without a      *)
(* qualifying event: it stops with an error instead of storing a value in  *)
(* the two tables.                                                         *)
C3_ZeroCountNotStored ==
    IterDone => Qualifying(bvals_df.index[LastRow], mag_min[LastCol]) # {}

(* C7: the magnitudes handed to SetStats for (set, Mc) are those of the    *)
(* rows of that set with a magnitude >= Mc, each as often as it occurs,    *)
(* and Ntot is their number.                                               *)
C7_QualifyingEvents ==
    IterDone =>
        LET setnum == bvals_df.index[LastRow]
            magc == mag_min[LastCol]
            Q == Qualifying(setnum, magc)
        IN  /\ setnum # 0
            /\ statsobj.mc = magc
            /\ statsobj.Ntot = Cardinality(Q)
            /\ Len(statsobj.mags) = Cardinality(Q)
            /\ \A m \in Mags :
                  Occurrences(statsobj.mags, m)
                      = Cardinality({j \in Q : events[j].mag = m})

(* a set of which one event qualifies and one does not, beside another set *)
(* with a qualifying event                                                 *)
C7_Witness ==
    /\ IterDone
    /\ LET setnum == bvals_df.index[LastRow]
           magc == mag_min[LastCol]
       IN  /\ statsobj.Ntot >= 1
           /\ \E j \in DOMAIN events : ex_set[j] = setnum /\ events[j].mag < magc
           /\ \E j \in DOMAIN events :
                 ex_set[j] \notin {0, setnum} /\ events[j].mag >= magc

(* the qualifying magnitudes are N >= 1 copies of Mc + delta *)
Synthetic(delta) ==
    /\ IterDone
    /\ statsobj.Ntot >= 1
    /\ \A j \in DOMAIN statsobj.mags : statsobj.mags[j] = statsobj.mc + delta

(* log10(e) / (delta + 0.05), in thousandths, rounded down *)
ClosedFormB(delta) == (Log10e * 100) \div (delta + 5)

(* C8: for N >= 1 magnitudes all equal to Mc + delta, the stored b-value   *)
(* is log10(e) / (delta + 0.05) and the stored error is that b-value over  *)
(* sqrt(N).                                                                *)
C8_ClosedForm ==
    \A delta \in 0..60 :
        Synthetic(delta) =>
            /\ getB(statsobj) = Num(ClosedFormB(delta))
            /\ bvals_df.val[LastRow][LastCol] = Num(ClosedFormB(delta))
            /\ berrs_df.val[LastRow][LastCol]
                  = Num((ClosedFormB(delta) * 1000) \div Sqrt(Len(statsobj.mags)))

(* three events of magnitude Mc *)
C8_Witness == Synthetic(0) /\ statsobj.Ntot = 3

(* two events of magnitude Mc + 0.05 *)
C8_WitnessDelta == Synthetic(5) /\ statsobj.Ntot = 2

-----------------------------------------------------------------------------
(* Properties of the linked views (cell 11) *)

(* the views other than the histogram and the legend *)
OtherViews == {"quakes", "explode", "latlon", "fmd", "scatter"}

(* the view draws in colour only rows of the sets picked in the histogram *)
FollowsHistogram(v) ==
    click_multi # {} =>
        \A row \in Coloured(v) : "ex_set" \in DOMAIN row /\ row.ex_set \in click_multi

(* C9: whatever bars are picked in the histogram, each other view draws in *)
(* colour only rows of the picked sets.                                    *)
C9_ViewsFollowHistogram ==
    pc = "view" => \A v \in OtherViews : FollowsHistogram(v)

(* the views that filter on the histogram's selection do follow it *)
C9_FilteredViewsFollow ==
    pc = "view" => \A v \in OtherViews \ {"scatter"} : FollowsHistogram(v)

-----------------------------------------------------------------------------
(* Properties of the relabelling of the two tables (cells 8-9) *)

(* the relabelling with range(1,51) does not raise *)
C11_Relabelled == pc # "ValueError"

(* once relabelled, every row of the two tables, and every row of the long *)
(* form made from them, carries the set_id its values were estimated from  *)
C11_LabelsAreSetIds ==
    /\ bvals_df.label # <<>> =>
          \A r \in DOMAIN bvals_df.index : bvals_df.label[r] = bvals_df.index[r]
    /\ berrs_df.label # <<>> =>
          \A r \in DOMAIN berrs_df.index : berrs_df.label[r] = berrs_df.index[r]
    /\ \A p \in DOMAIN bvals_long :
          bvals_long[p].ex_set
              = bvals_df.index[((p - 1) % Len(bvals_df.index)) + 1]

(* C11: for any catalog, with or without empty sets, the relabelling of    *)
(* the b-value and b-error rows with 1..50 does not fail, and every row    *)
(* carries as ex_set the set_id of the set whose events gave its values.   *)
C11_RowsKeepTheirSet == C11_Relabelled /\ C11_LabelsAreSetIds

=============================================================================
